---- MODULE Spec2Model ----
(***************************************************************************)
(* Model of src/src/main.rs: a file-backed to-do list with a terminal key  *)
(* loop.  A task is one line of the file; its state is kept twice, as the  *)
(* field task_type and as the first three bytes of text.                   *)
(*                                                                         *)
(* Texts and the file are sequences of bytes.  A byte is written as a      *)
(* one-character string; "LF" and "CR" are the bytes 0x0A and 0x0D, and    *)
(* "C3","A9" are the two bytes of the UTF-8 encoding of one character      *)
(* (U+00E9), "C3" its leading byte and "A9" its continuation byte.         *)
(*                                                                         *)
(* Not modelled: what print() and move_cursor() write to the terminal      *)
(* (they change no field), a failure of into_raw_mode() or of reading a    *)
(* key, and a write error after File::create succeeded.                    *)
(***************************************************************************)
EXTENDS Integers, Sequences, FiniteSets, TLC

VARIABLES
    file,             \* bytes of the file at file_path
    file_exists,      \* whether a file exists at file_path
    tasks,            \* TodoList.tasks: sequence of [task_type, text]
    is_editing,       \* TodoList.is_editing
    cursor_position,  \* Console.cursor_position: <<column, row>>
    raw_mode,         \* main's RawTerminal guard is alive (terminal in raw mode)
    cursor_hidden,    \* the terminal's cursor is hidden
    key,              \* the key event handled by the last loop iteration
    pc                \* position of main

vars == <<file, file_exists, tasks, is_editing, cursor_position,
          raw_mode, cursor_hidden, key, pc>>

(***************************************************************************)
(* Bounds of the model                                                     *)
(***************************************************************************)
\* most lines in a generated initial file
MaxLines == 2
\* Down is not taken beyond this row (the code has no upper clamp)
MaxRow == 4

\* number of values of u16, the type of the cursor's column and row
U16Size == 65536

(***************************************************************************)
(* TaskType and its operations                                             *)
(***************************************************************************)
TaskType == {"Todo", "Doing", "Done", "Rejected", "NotDefined"}

\* impl Ord for TaskType: cmp(self, other)
cmp(self, other) ==
    CASE self = "Todo" ->
           IF other = "Todo" THEN "Equal" ELSE "Less"
      [] self = "Doing" ->
           IF other = "Todo" THEN "Greater"
           ELSE IF other = "Doing" THEN "Equal" ELSE "Less"
      [] self = "Done" ->
           IF other \in {"Todo", "Doing"} THEN "Greater"
           ELSE IF other = "Done" THEN "Equal" ELSE "Less"
      [] self = "Rejected" ->
           IF other \in {"Todo", "Doing", "Done"} THEN "Greater"
           ELSE IF other = "Rejected" THEN "Equal" ELSE "Less"
      [] self = "NotDefined" ->
           IF other = "NotDefined" THEN "Equal" ELSE "Greater"

\* next without the wrap from Rejected back to Todo
next_without_wrap(self) ==
    CASE self = "Todo" -> "Doing"
      [] self = "Doing" -> "Done"
      [] self = "Done" -> "Rejected"
      [] self = "Rejected" -> "Rejected"
      [] self = "NotDefined" -> "NotDefined"

\* TaskType::next
next(self) ==
    CASE self = "Todo" -> "Doing"
      [] self = "Doing" -> "Done"
      [] self = "Done" -> "Rejected"
      [] self = "Rejected" -> "Todo"
      [] self = "NotDefined" -> "NotDefined"

\* str::starts_with
starts_with(text, prefix) ==
    /\ Len(text) >= Len(prefix)
    /\ SubSeq(text, 1, Len(prefix)) = prefix

get_type_from_string(text) ==
    IF starts_with(text, <<"[", "+", "]">>) THEN "Doing"
    ELSE IF starts_with(text, <<"[", "X", "]">>) THEN "Done"
    ELSE IF starts_with(text, <<"[", "-", "]">>) THEN "Rejected"
    ELSE IF starts_with(text, <<"[", " ", "]">>) THEN "Todo"
    ELSE "NotDefined"

\* type_to_string with the prefixes of Done and Rejected exchanged
type_to_string_exchanged(task_type) ==
    CASE task_type = "Todo" -> <<"[", " ", "]">>
      [] task_type = "Doing" -> <<"[", "+", "]">>
      [] task_type = "Done" -> <<"[", "-", "]">>
      [] task_type = "Rejected" -> <<"[", "X", "]">>
      [] task_type = "NotDefined" -> <<"[", " ", "]">>

type_to_string(task_type) ==
    CASE task_type = "Todo" -> <<"[", " ", "]">>
      [] task_type = "Doing" -> <<"[", "+", "]">>
      [] task_type = "Done" -> <<"[", "X", "]">>
      [] task_type = "Rejected" -> <<"[", "-", "]">>
      [] task_type = "NotDefined" -> <<"[", " ", "]">>

(***************************************************************************)
(* Strings: UTF-8 and char boundaries                                      *)
(***************************************************************************)
LeadByte == "C3"
ContByte == "A9"

\* str::is_char_boundary(index), index counted from 0
is_char_boundary(text, index) ==
    \/ index = 0
    \/ index = Len(text)
    \/ index < Len(text) /\ text[index + 1] # ContByte

\* whether the bytes are valid UTF-8 (read_line returns Err otherwise)
is_utf8(bytes) ==
    \A i \in 1..Len(bytes) :
        /\ bytes[i] = LeadByte => (i < Len(bytes) /\ bytes[i + 1] = ContByte)
        /\ bytes[i] = ContByte => (i > 1 /\ bytes[i - 1] = LeadByte)

\* String::replace_range(0..3, with) panics unless 3 is a char boundary
replace_range_ok(text) == Len(text) >= 3 /\ is_char_boundary(text, 3)

\* replace_range over 0..2: the third byte of the text is kept
replace_range_short(text, with) == with \o SubSeq(text, 3, Len(text))

replace_range(text, with) == with \o SubSeq(text, 4, Len(text))

(***************************************************************************)
(* Task                                                                    *)
(***************************************************************************)
Task(task_type, text) == [task_type |-> task_type, text |-> text]

\* Task::change_type, when replace_range does not panic
change_type(task) ==
    Task(next(task.task_type),
         replace_range(task.text, type_to_string(next(task.task_type))))

\* Task::change_type up to the panic of replace_range
change_type_panicked(task) == Task(next(task.task_type), task.text)

(***************************************************************************)
(* BufRead::lines over the file                                            *)
(***************************************************************************)
\* index of the first LF of bytes at or after position i, 0 if none
RECURSIVE find_lf(_, _)
find_lf(bytes, i) ==
    IF i > Len(bytes) THEN 0
    ELSE IF bytes[i] = "LF" THEN i
    ELSE find_lf(bytes, i + 1)

\* a line without its LF: a CR before the LF is dropped as well
strip_cr(line) ==
    IF Len(line) > 0 /\ line[Len(line)] = "CR"
    THEN SubSeq(line, 1, Len(line) - 1)
    ELSE line

\* the items of reader.lines(): <<TRUE, line>> for Ok(line), <<FALSE, <<>>>> for Err
RECURSIVE lines(_)
lines(bytes) ==
    IF bytes = <<>> THEN <<>>
    ELSE LET n == find_lf(bytes, 1)
             raw == IF n = 0 THEN bytes ELSE SubSeq(bytes, 1, n - 1)
             line == IF n = 0 THEN raw ELSE strip_cr(raw)
             item == IF is_utf8(raw) THEN <<TRUE, line>> ELSE <<FALSE, <<>>>>
             rest == IF n = 0 THEN <<>> ELSE SubSeq(bytes, n + 1, Len(bytes))
         IN  <<item>> \o lines(rest)

\* TodoList::add
add(list, text, task_type) == Append(list, Task(task_type, text))

\* the loop of TodoList::load over the items: Ok lines are added, Err skipped
RECURSIVE load_items(_, _)
load_items(list, items) ==
    IF items = <<>> THEN list
    ELSE load_items(IF items[1][1]
                    THEN add(list, items[1][2], get_type_from_string(items[1][2]))
                    ELSE list,
                    Tail(items))

\* TodoList::load of an existing file: the new value of tasks
load(bytes) == load_items(<<>>, lines(bytes))

(***************************************************************************)
(* TodoList::save                                                          *)
(***************************************************************************)
\* the comparison sort_by_key sorts with: key(a) < key(b)
is_less(a, b) == cmp(a.task_type, b.task_type) = "Less"

\* an insertion that also moves x past the elements equal to it (not stable)
RECURSIVE insert_tail_past_equal(_, _)
insert_tail_past_equal(sorted, x) ==
    IF sorted = <<>> THEN <<x>>
    ELSE IF ~is_less(sorted[Len(sorted)], x)
         THEN Append(insert_tail_past_equal(SubSeq(sorted, 1, Len(sorted) - 1), x),
                     sorted[Len(sorted)])
         ELSE Append(sorted, x)

\* one insertion of the stable sort: x moves left past the elements greater than it
RECURSIVE insert_tail(_, _)
insert_tail(sorted, x) ==
    IF sorted = <<>> THEN <<x>>
    ELSE IF is_less(x, sorted[Len(sorted)])
         THEN Append(insert_tail(SubSeq(sorted, 1, Len(sorted) - 1), x),
                     sorted[Len(sorted)])
         ELSE Append(sorted, x)

\* slice::sort_by_key(|task| task.task_type): stable, by insertion for short slices
RECURSIVE sort_by_key(_)
sort_by_key(list) ==
    IF list = <<>> THEN <<>>
    ELSE insert_tail(sort_by_key(SubSeq(list, 1, Len(list) - 1)), list[Len(list)])

\* a save that writes the prefix of the task's state in place of the text's
\* first three bytes
RECURSIVE written_encoded(_)
written_encoded(list) ==
    IF list = <<>> THEN <<>>
    ELSE type_to_string(list[1].task_type) \o SubSeq(list[1].text, 4, Len(list[1].text))
         \o <<"LF">> \o written_encoded(Tail(list))

\* the bytes save writes for a list: each text followed by a newline
RECURSIVE written(_)
written(list) ==
    IF list = <<>> THEN <<>>
    ELSE list[1].text \o <<"LF">> \o written(Tail(list))

\* a save that opens the file for appending in place of truncating it
save_ok_appending ==
    /\ tasks' = sort_by_key(tasks)
    /\ file' = file \o written(sort_by_key(tasks))
    /\ file_exists' = TRUE

\* TodoList::save when File::create succeeds: the list is sorted, the file rewritten
save_ok ==
    /\ tasks' = sort_by_key(tasks)
    /\ file' = written(sort_by_key(tasks))
    /\ file_exists' = TRUE

\* TodoList::save when File::create fails: unwrap panics before anything is changed
save_panic ==
    /\ pc' = "panic_save"
    /\ UNCHANGED <<tasks, file, file_exists>>

(***************************************************************************)
(* Initial files                                                           *)
(***************************************************************************)
\* lines the generated files are made of: one per prefix, and lines without a
\* recognised prefix ("call", the two-byte "ab" and the empty line)
BaseLines ==
    { <<"[", " ", "]", "a">>,
      <<"[", "+", "]", "b">>,
      <<"[", "X", "]", "c">>,
      <<"[", "-", "]", "d">>,
      <<"c", "a", "l", "l">>,
      <<"a", "b">>,
      <<>> }

\* the files of at most n lines of BaseLines, each ended by a newline
RECURSIVE FilesOf(_)
FilesOf(n) ==
    IF n = 0 THEN {<<>>}
    ELSE LET shorter == FilesOf(n - 1)
         IN  shorter \cup {f \o l \o <<"LF">> : f \in shorter, l \in BaseLines}

\* "[X] wash car", "[ ] buy milk", "[+] write report"
WashCarFile ==
    <<"[", "X", "]", " ", "w", "a", "s", "h", " ", "c", "a", "r", "LF",
      "[", " ", "]", " ", "b", "u", "y", " ", "m", "i", "l", "k", "LF",
      "[", "+", "]", " ", "w", "r", "i", "t", "e", " ", "r", "e", "p", "o", "r", "t", "LF">>

\* "[-] call bank" and "call bank"
CallBankFile ==
    <<"[", "-", "]", " ", "c", "a", "l", "l", " ", "b", "a", "n", "k", "LF",
      "c", "a", "l", "l", " ", "b", "a", "n", "k", "LF">>

\* a line ended by CR LF, a line ended by CR CR LF, and a last line ended by CR
\* without LF
CrFile ==
    <<"[", "X", "]", "c", "CR", "LF",
      "[", "+", "]", "b", "CR", "CR", "LF",
      "[", " ", "]", "a", "CR">>

\* a line that is not UTF-8, a line whose byte 3 is inside a character, a line of
\* three bytes ending in a two-byte character, and a last line without newline
Utf8File ==
    <<"A9", "LF",
      "a", "b", "C3", "A9", "LF",
      "a", "C3", "A9", "LF",
      "[", "-", "]", "d">>

\* a line of three characters in four bytes, with a char boundary at byte 3
AccentFile == <<"a", "C3", "A9", "b", "LF">>

ExampleFiles == {WashCarFile, CallBankFile, CrFile, Utf8File, AccentFile}

InitFiles == FilesOf(MaxLines) \cup ExampleFiles

Init ==
    /\ file_exists \in BOOLEAN
    /\ file \in (IF file_exists THEN InitFiles ELSE {<<>>})
    /\ tasks = <<>>
    /\ is_editing = FALSE
    /\ cursor_position = <<1, 1>>
    /\ raw_mode = FALSE
    /\ cursor_hidden = FALSE
    /\ key = "none"
    /\ pc = "start"

(***************************************************************************)
(* main before the key loop                                                *)
(***************************************************************************)
\* a load that goes on with the empty list without creating the missing file
Load_without_create ==
    /\ pc = "start"
    /\ pc' = "loaded"
    /\ tasks' = (IF file_exists THEN load(file) ELSE <<>>)
    /\ UNCHANGED <<file, file_exists, is_editing, cursor_position, raw_mode,
                   cursor_hidden, key>>

\* todo_list.load(file_path): a missing file is created empty, and when it cannot
\* be created load prints "Could not create file" and returns with the list as it
\* was (pc "not_created"); main goes on to the save either way
Load ==
    /\ pc = "start"
    /\ IF file_exists
       THEN /\ tasks' = load(file)
            /\ pc' = "loaded"
            /\ UNCHANGED <<file, file_exists>>
       ELSE \/ /\ file_exists' = TRUE
               /\ file' = <<>>
               /\ tasks' = load(<<>>)
               /\ pc' = "loaded"
            \/ /\ pc' = "not_created"
               /\ UNCHANGED <<file, file_exists, tasks>>
    /\ UNCHANGED <<is_editing, cursor_position, raw_mode, cursor_hidden, key>>

\* main without the save before the loop
StartupSave_without_save ==
    /\ pc \in {"loaded", "not_created"}
    /\ pc' = "loop"
    /\ raw_mode' = TRUE
    /\ cursor_hidden' = TRUE
    /\ UNCHANGED <<file, file_exists, tasks, is_editing, cursor_position, key>>

\* todo_list.save(file_path), then raw mode is entered and the cursor hidden
StartupSave ==
    /\ pc \in {"loaded", "not_created"}
    /\ \/ /\ save_ok
          /\ pc' = "loop"
          /\ raw_mode' = TRUE
          /\ cursor_hidden' = TRUE
       \/ /\ save_panic
          /\ UNCHANGED <<raw_mode, cursor_hidden>>
    /\ UNCHANGED <<is_editing, cursor_position, key>>

(***************************************************************************)
(* The key loop                                                            *)
(***************************************************************************)
Row == cursor_position[2]

\* Console::move_cursor
move_cursor(direction) ==
    CASE direction = "Up" ->
           IF cursor_position[2] > 1
           THEN cursor_position' = <<cursor_position[1], cursor_position[2] - 1>>
           ELSE UNCHANGED cursor_position
      [] direction = "Down" ->
           cursor_position' = <<cursor_position[1], (cursor_position[2] + 1) % U16Size>>
      [] direction = "Left" ->
           IF cursor_position[1] > 1
           THEN cursor_position' = <<cursor_position[1] - 1, cursor_position[2]>>
           ELSE UNCHANGED cursor_position
      [] direction = "Right" ->
           IF cursor_position[1] < 10
           THEN cursor_position' = <<cursor_position[1] + 1, cursor_position[2]>>
           ELSE UNCHANGED cursor_position

\* a panic inside the loop unwinds main: the RawTerminal guard is dropped, the
\* cursor::Show after the loop is not reached
unwind(where) ==
    /\ pc' = where
    /\ raw_mode' = FALSE
    /\ UNCHANGED cursor_hidden

\* q that leaves the loop without the save after it
KeyQ_without_save ==
    /\ pc = "loop"
    /\ key' = "q"
    /\ pc' = "exited"
    /\ cursor_hidden' = FALSE
    /\ raw_mode' = FALSE
    /\ UNCHANGED <<file, file_exists, tasks, is_editing, cursor_position>>

\* Key::Char('q') => break, then the save and cursor::Show after the loop
KeyQ ==
    /\ pc = "loop"
    /\ key' = "q"
    /\ \/ /\ save_ok
          /\ pc' = "exited"
          /\ cursor_hidden' = FALSE
          /\ raw_mode' = FALSE
       \/ /\ save_panic
          /\ raw_mode' = FALSE
          /\ UNCHANGED cursor_hidden
    /\ UNCHANGED <<is_editing, cursor_position>>

\* Up that moves the cursor in edit mode as well
KeyUp_while_editing ==
    /\ pc = "loop"
    /\ key' = "Up"
    /\ move_cursor("Up")
    /\ UNCHANGED <<file, file_exists, tasks, is_editing, raw_mode, cursor_hidden, pc>>

\* Key::Up
KeyUp ==
    /\ pc = "loop"
    /\ key' = "Up"
    /\ IF is_editing = FALSE
       THEN move_cursor("Up")
       ELSE UNCHANGED cursor_position
    /\ UNCHANGED <<file, file_exists, tasks, is_editing, raw_mode, cursor_hidden, pc>>

\* Key::Down.  The row is a u16 and += 1 has no clamp: at the last value of u16
\* the addition panics in a build with overflow checks and wraps to 0 in one without
KeyDownHandler ==
    /\ pc = "loop"
    /\ key' = "Down"
    /\ IF is_editing = FALSE
       THEN IF Row + 1 >= U16Size
            THEN \/ /\ move_cursor("Down")
                    /\ UNCHANGED <<pc, raw_mode, cursor_hidden>>
                 \/ /\ unwind("panic_overflow")
                    /\ UNCHANGED cursor_position
            ELSE /\ move_cursor("Down")
                 /\ UNCHANGED <<pc, raw_mode, cursor_hidden>>
       ELSE UNCHANGED <<cursor_position, pc, raw_mode, cursor_hidden>>
    /\ UNCHANGED <<file, file_exists, tasks, is_editing>>

\* Key::Down with the row not taken beyond MaxRow
KeyDown ==
    /\ is_editing \/ Row < MaxRow
    /\ KeyDownHandler

\* Right that takes the last task when the row is beyond the list
KeyRight_clamped ==
    /\ pc = "loop"
    /\ key' = "Right"
    /\ LET index == IF Row > Len(tasks) THEN Len(tasks) ELSE Row
       IN  IF index = 0
           THEN /\ unwind("panic_index")
                /\ UNCHANGED <<tasks, is_editing>>
           ELSE IF replace_range_ok(tasks[index].text)
                THEN /\ tasks' = [tasks EXCEPT ![index] = change_type(@)]
                     /\ is_editing' = TRUE
                     /\ UNCHANGED <<pc, raw_mode, cursor_hidden>>
                ELSE /\ tasks' = [tasks EXCEPT ![index] = change_type_panicked(@)]
                     /\ unwind("panic_range")
                     /\ UNCHANGED is_editing
    /\ UNCHANGED <<file, file_exists, cursor_position>>

\* Right that writes the list to the file after every cycle
KeyRight_writing ==
    /\ pc = "loop"
    /\ key' = "Right"
    /\ IF Row - 1 >= Len(tasks)
       THEN /\ unwind("panic_index")
            /\ UNCHANGED <<tasks, is_editing, file>>
       ELSE IF replace_range_ok(tasks[Row].text)
            THEN /\ tasks' = [tasks EXCEPT ![Row] = change_type(@)]
                 /\ file' = written([tasks EXCEPT ![Row] = change_type(@)])
                 /\ is_editing' = TRUE
                 /\ UNCHANGED <<pc, raw_mode, cursor_hidden>>
            ELSE /\ tasks' = [tasks EXCEPT ![Row] = change_type_panicked(@)]
                 /\ unwind("panic_range")
                 /\ UNCHANGED <<is_editing, file>>
    /\ UNCHANGED <<file_exists, cursor_position>>

\* Key::Right: tasks[row - 1].change_type(), is_editing = true.  At row 0 the u16
\* subtraction panics or wraps to the last value of u16, an index out of bounds
KeyRight ==
    /\ pc = "loop"
    /\ key' = "Right"
    /\ IF (Row - 1) % U16Size >= Len(tasks)
       THEN /\ unwind("panic_index")
            /\ UNCHANGED <<tasks, is_editing>>
       ELSE IF replace_range_ok(tasks[Row].text)
            THEN /\ tasks' = [tasks EXCEPT ![Row] = change_type(@)]
                 /\ is_editing' = TRUE
                 /\ UNCHANGED <<pc, raw_mode, cursor_hidden>>
            ELSE /\ tasks' = [tasks EXCEPT ![Row] = change_type_panicked(@)]
                 /\ unwind("panic_range")
                 /\ UNCHANGED is_editing
    /\ UNCHANGED <<file, file_exists, cursor_position>>

\* Left that leaves edit mode without saving
KeyLeft_without_save ==
    /\ pc = "loop"
    /\ key' = "Left"
    /\ is_editing' = FALSE
    /\ UNCHANGED <<file, file_exists, tasks, cursor_position, raw_mode, cursor_hidden, pc>>

\* Key::Left: is_editing = false, save
KeyLeft ==
    /\ pc = "loop"
    /\ key' = "Left"
    /\ is_editing' = FALSE
    /\ \/ /\ save_ok
          /\ UNCHANGED <<pc, raw_mode, cursor_hidden>>
       \/ /\ save_panic
          /\ raw_mode' = FALSE
          /\ UNCHANGED cursor_hidden
    /\ UNCHANGED cursor_position

\* any other key
KeyOther ==
    /\ pc = "loop"
    /\ key' = "other"
    /\ UNCHANGED <<file, file_exists, tasks, is_editing, cursor_position,
                   raw_mode, cursor_hidden, pc>>

Next ==
    \/ Load
    \/ StartupSave
    \/ KeyQ
    \/ KeyUp
    \/ KeyDown
    \/ KeyRight
    \/ KeyLeft
    \/ KeyOther

Spec == Init /\ [][Next]_vars

(***************************************************************************)
(* The key loop with Down unbounded, as in the code, on an empty or        *)
(* missing file: the row runs over all of u16                              *)
(***************************************************************************)
InitCursor ==
    /\ file_exists \in BOOLEAN
    /\ file = <<>>
    /\ tasks = <<>>
    /\ is_editing = FALSE
    /\ cursor_position = <<1, 1>>
    /\ raw_mode = FALSE
    /\ cursor_hidden = FALSE
    /\ key = "none"
    /\ pc = "start"

NextCursor ==
    \/ Load
    \/ StartupSave
    \/ KeyQ
    \/ KeyUp
    \/ KeyDownHandler
    \/ KeyRight
    \/ KeyLeft
    \/ KeyOther

SpecCursor == InitCursor /\ [][NextCursor]_vars

(***************************************************************************)
(* Notions the properties are stated with                                  *)
(***************************************************************************)
ValidPrefixes ==
    { <<"[", " ", "]">>, <<"[", "+", "]">>, <<"[", "X", "]">>, <<"[", "-", "]">> }

\* position of a state in the order Todo < Doing < Done < Rejected < Undefined
Rank(t) ==
    CASE t = "Todo" -> 0
      [] t = "Doing" -> 1
      [] t = "Done" -> 2
      [] t = "Rejected" -> 3
      [] t = "NotDefined" -> 4

SortedByState(list) ==
    \A i, j \in 1..Len(list) :
        i < j => Rank(list[i].task_type) <= Rank(list[j].task_type)

OfState(list, t) == SelectSeq(list, LAMBDA task : task.task_type = t)

\* new is old in state order, the tasks of each state in the order they had in old
IsStableSortOf(new, old) ==
    /\ Len(new) = Len(old)
    /\ SortedByState(new)
    /\ \A t \in TaskType : OfState(new, t) = OfState(old, t)

\* bytes holds exactly the texts of list from index i on, each followed by LF
RECURSIVE HoldsTexts(_, _, _)
HoldsTexts(bytes, list, i) ==
    IF i > Len(list) THEN bytes = <<>>
    ELSE LET n == Len(list[i].text)
         IN  /\ Len(bytes) > n
             /\ SubSeq(bytes, 1, n) = list[i].text
             /\ bytes[n + 1] = "LF"
             /\ HoldsTexts(SubSeq(bytes, n + 2, Len(bytes)), list, i + 1)

Terminated ==
    pc \in {"exited", "panic_index", "panic_range", "panic_save", "panic_overflow"}

\* the step is a save that completed: at startup, by Left, or at exit
SaveCompleted ==
    \/ pc \in {"loaded", "not_created"} /\ pc' = "loop"
    \/ pc = "loop" /\ key' = "Left" /\ pc' = "loop"
    \/ pc = "loop" /\ pc' = "exited"

\* the state is the one a completed save left
AfterSave ==
    \/ pc = "loop" /\ key \in {"none", "Left"}
    \/ pc = "exited"

HasText(text) == \E i \in 1..Len(tasks) : tasks[i].text = text

(***************************************************************************)
(* Properties                                                              *)
(***************************************************************************)
\* C1: in every reachable state the first three bytes of every task's text decode
\* to the task's state.
C1_PrefixMatchesState ==
    \A i \in 1..Len(tasks) :
        get_type_from_string(tasks[i].text) = tasks[i].task_type

\* C2: right after a save, loading the saved file yields the list held in memory:
\* the same texts and the same states, in the same order.
C2_SaveThenLoad == AfterSave => load(file) = tasks

\* C3: a save leaves the list as the stable sort of its previous order under
\* Todo < Doing < Done < Rejected < Undefined, and the file holding exactly the
\* texts of the sorted list, one per line in that order.
C3_SaveStableSorts ==
    [][SaveCompleted =>
          /\ IsStableSortOf(tasks', tasks)
          /\ HoldsTexts(file', tasks', 1)]_vars

\* the example of C3: the three lines loaded as wash car, buy milk, write report
\* are in the file as buy milk, write report, wash car
C3_Witness ==
    /\ pc = "loop"
    /\ key = "none"
    /\ file =
         <<"[", " ", "]", " ", "b", "u", "y", " ", "m", "i", "l", "k", "LF",
           "[", "+", "]", " ", "w", "r", "i", "t", "e", " ", "r", "e", "p", "o", "r", "t", "LF",
           "[", "X", "]", " ", "w", "a", "s", "h", " ", "c", "a", "r", "LF">>

\* C4: Right with the cursor row beyond the last task (or on an empty list) ends
\* in the bounds panic; no task and no byte of the file is changed.
C4_RightOutOfRange ==
    [][(pc = "loop" /\ key' = "Right" /\ Row > Len(tasks)) =>
          /\ pc' = "panic_index"
          /\ tasks' = tasks
          /\ file' = file
          /\ file_exists' = file_exists]_vars

C4_Witness ==
    /\ pc = "panic_index"
    /\ Len(tasks) >= 1
    /\ Row > Len(tasks)

\* C5: Right with the cursor on an existing task advances that task's state by one
\* step, sets is_editing and changes no other task; while is_editing holds, Up,
\* Down and other keys move neither the cursor nor a task, so that the next Right
\* advances the same task.
C5_RightCyclesSelected ==
    [][/\ (pc = "loop" /\ key' = "Right" /\ Row \in 1..Len(tasks)) =>
             /\ is_editing' = TRUE
             /\ Len(tasks') = Len(tasks)
             /\ tasks'[Row].task_type = next(tasks[Row].task_type)
             /\ \A j \in 1..Len(tasks) : j # Row => tasks'[j] = tasks[j]
             /\ cursor_position' = cursor_position
       /\ (pc = "loop" /\ is_editing /\ key' \in {"Up", "Down", "other"}) =>
             /\ is_editing'
             /\ cursor_position' = cursor_position
             /\ tasks' = tasks]_vars

\* C6: Right, Up, Down and ignored keys never change the content of the file; it
\* changes only in the save at startup, by Left and by q.
C6_EditNotPersisted ==
    [][/\ (pc = "loop" /\ key' \in {"Right", "Up", "Down", "other"}) => file' = file
       /\ file' # file =>
             \/ pc = "loaded"
             \/ pc = "loop" /\ key' \in {"Left", "q"}]_vars

\* an edit is pending: the file does not hold the texts of the list
C6_Witness ==
    /\ pc = "loop"
    /\ key = "Right"
    /\ is_editing
    /\ ~HoldsTexts(file, tasks, 1)

\* C7: Left, in either mode, clears is_editing; when its save completes, the list
\* is the state-sorted list of the tasks as they were cycled, and the file holds
\* the texts of the list in that order.
C7_LeftPersists ==
    [][(pc = "loop" /\ key' = "Left") =>
          /\ is_editing' = FALSE
          /\ pc' \in {"loop", "panic_save"}
          /\ pc' = "loop" =>
                /\ IsStableSortOf(tasks', tasks)
                /\ HoldsTexts(file', tasks', 1)]_vars

\* Left has persisted a cycled task: "[+]a" is "[ ]a" cycled once
C7_Witness ==
    /\ pc = "loop"
    /\ key = "Left"
    /\ HasText(<<"[", "+", "]", "a">>)
    /\ HoldsTexts(file, tasks, 1)

\* C8: q ends the loop in either mode; when the save after the loop completes,
\* the file holds the texts of all tasks as last cycled, pending edit included,
\* in state-sorted order.
C8_QuitSaves ==
    [][(pc = "loop" /\ key' = "q") =>
          /\ pc' \in {"exited", "panic_save"}
          /\ pc' = "exited" =>
                /\ IsStableSortOf(tasks', tasks)
                /\ HoldsTexts(file', tasks', 1)]_vars

\* exit with an edit pending: q does not clear is_editing
C8_Witness ==
    /\ pc = "exited"
    /\ is_editing
    /\ HasText(<<"[", "-", "]", "c">>)
    /\ HoldsTexts(file, tasks, 1)

\* C9: whenever main has terminated, the cursor is not left hidden.
C9_CursorShownOnExit == Terminated => cursor_hidden = FALSE

\* C10: for every line of the file and every task text that starts with one of
\* the four valid prefixes, encoding the decoded state gives back that prefix.
C10_PrefixRoundTrip ==
    \A line \in {lines(file)[i][2] : i \in 1..Len(lines(file))}
                \cup {tasks[i].text : i \in 1..Len(tasks)} :
        (\E p \in ValidPrefixes : starts_with(line, p)) =>
            type_to_string(get_type_from_string(line)) = SubSeq(line, 1, 3)

\* the file holds a Done line and a Rejected line, each with a description
C10_Witness ==
    /\ \E i \in 1..Len(lines(file)) :
          /\ starts_with(lines(file)[i][2], <<"[", "X", "]">>)
          /\ Len(lines(file)[i][2]) > 3
    /\ \E i \in 1..Len(lines(file)) :
          /\ starts_with(lines(file)[i][2], <<"[", "-", "]">>)
          /\ Len(lines(file)[i][2]) > 3

\* C12: after any sequence of key events the cursor row is at least 1 and the
\* cursor column is within 1..10.
C12_CursorInRange ==
    /\ cursor_position[2] >= 1
    /\ cursor_position[1] \in 1..10

\* C11: every Right on an existing task takes its state one step along the
\* cycle Todo -> Doing -> Done -> Rejected -> Todo: four applications of next
\* return the state and fewer do not; a NotDefined task stays NotDefined; the
\* line "[-] call bank" becomes "[ ] call bank".
C11_NextIsFourCycle ==
    [][(pc = "loop" /\ key' = "Right" /\ Row \in 1..Len(tasks)) =>
          LET s == tasks[Row].task_type
              t == tasks'[Row].task_type
          IN  /\ s = "NotDefined" => t = "NotDefined"
              /\ s # "NotDefined" =>
                    /\ t # "NotDefined"
                    /\ Rank(t) = (Rank(s) + 1) % 4
                    /\ s \notin {next(s), next(next(s)), next(next(next(s)))}
              /\ next(next(next(next(s)))) = s
              /\ tasks[Row].text =
                    <<"[", "-", "]", " ", "c", "a", "l", "l", " ", "b", "a", "n", "k">>
                 => tasks'[Row].text =
                    <<"[", " ", "]", " ", "c", "a", "l", "l", " ", "b", "a", "n", "k">>]_vars

\* "[-] call bank" has been cycled to "[ ] call bank", state Todo
C11_Witness ==
    /\ pc = "loop"
    /\ key = "Right"
    /\ \E i \in 1..Len(tasks) :
          tasks[i] = Task("Todo",
                          <<"[", " ", "]", " ", "c", "a", "l", "l", " ", "b", "a", "n", "k">>)

(***************************************************************************)
(* Lines of a file, byte for byte                                          *)
(***************************************************************************)
\* the lines of bytes as the LF bytes delimit them, a CR kept; a last line without
\* LF counts when it is not empty
RECURSIVE RawLines(_)
RawLines(bytes) ==
    IF bytes = <<>> THEN <<>>
    ELSE LET n == find_lf(bytes, 1)
         IN  IF n = 0 THEN <<bytes>>
             ELSE <<SubSeq(bytes, 1, n - 1)>> \o RawLines(SubSeq(bytes, n + 1, Len(bytes)))

\* the texts load reads from bytes: the lines that are UTF-8, without the LF and
\* without one CR before it
RECURSIVE OkTexts(_)
OkTexts(items) ==
    IF items = <<>> THEN <<>>
    ELSE (IF items[1][1] THEN <<items[1][2]>> ELSE <<>>) \o OkTexts(Tail(items))

Count(seq, x) == Cardinality({i \in 1..Len(seq) : seq[i] = x})

\* s and t hold the same elements, each as many times
SameBag(s, t) ==
    /\ Len(s) = Len(t)
    /\ \A i \in 1..Len(s) : Count(s, s[i]) = Count(t, s[i])

HasValidPrefix(line) == \E p \in ValidPrefixes : starts_with(line, p)

\* no line without a valid prefix comes before a line with one
PrefixlessLast(ls) ==
    \A i, j \in 1..Len(ls) :
        i < j => ~(~HasValidPrefix(ls[i]) /\ HasValidPrefix(ls[j]))

\* the step is the save at startup, completed: no key has been handled since load
StartupSaved == pc \in {"loaded", "not_created"} /\ pc' = "loop"

\* C13 as stated: load and save with no edit in between rewrites every line byte
\* for byte: the saved file has the same multiset of lines as the loaded one, and
\* the lines without a recognised prefix come after all the others.
C13_LoadSaveKeepsLines ==
    [][StartupSaved =>
          /\ SameBag(RawLines(file'), RawLines(file))
          /\ PrefixlessLast(RawLines(file'))]_vars

\* C13 as amended: load and save with no edit in between writes the text of every
\* line that is valid UTF-8, as read (without its LF and one CR before it); the
\* saved file has the same multiset of lines as the texts read; a line without a
\* recognised prefix is a NotDefined task, is written back unchanged and comes
\* after all lines with a recognised prefix.
C13_LoadSaveKeepsTexts ==
    [][StartupSaved =>
          /\ SameBag(RawLines(file'), OkTexts(lines(file)))
          /\ PrefixlessLast(RawLines(file'))
          /\ \A i \in 1..Len(tasks) :
                ~HasValidPrefix(tasks[i].text) =>
                    /\ tasks[i].task_type = "NotDefined"
                    /\ Count(RawLines(file'), tasks[i].text) >= 1]_vars

\* the file of four lines, one of them not UTF-8 and two without a prefix, has
\* been loaded and saved: three lines, the two without a prefix last
C13_Witness ==
    /\ pc = "loop"
    /\ key = "none"
    /\ file = <<"[", "-", "]", "d", "LF",
                "a", "b", "C3", "A9", "LF",
                "a", "C3", "A9", "LF">>

\* C14: loading a path at which no file exists is no error: the list is empty
\* and main goes on; where the file can be created it is left empty at the path;
\* a save of the empty list leaves a file of zero bytes.
C14_MissingFile ==
    [][/\ (pc = "start" /\ ~file_exists) =>
             /\ pc' \in {"loaded", "not_created"}
             /\ tasks' = <<>>
             /\ pc' = "loaded" => (file_exists' /\ file' = <<>>)
       /\ (SaveCompleted /\ tasks = <<>>) =>
             /\ file_exists'
             /\ file' = <<>>
             /\ tasks' = <<>>]_vars

\* the empty list has been saved: a file of zero bytes exists
C14_Witness ==
    /\ pc = "loop"
    /\ key = "none"
    /\ tasks = <<>>
    /\ file_exists
    /\ file = <<>>

\* C15: a save with no edit since the save before it (the loop is in navigation
\* mode: is_editing is false from the startup save or the last Left on) leaves
\* the order of the list and the content of the file as they were.
C15_SaveIdempotent ==
    [][(SaveCompleted /\ pc = "loop" /\ ~is_editing) =>
          /\ tasks' = tasks
          /\ file' = file]_vars

\* the save at exit after a save with no edit in between, on a list with two
\* different tasks of the same state
C15_Witness ==
    /\ pc = "exited"
    /\ ~is_editing
    /\ Len(tasks) >= 2
    /\ tasks[1].task_type = tasks[2].task_type
    /\ tasks[1].text # tasks[2].text

\* C16: Right on an existing task, whatever its line is, completes: the state
\* becomes next(state), the first three bytes of the text become the prefix of
\* the new state and the rest of the text is unchanged.
C16_ChangeStateCompletes ==
    [][(pc = "loop" /\ key' = "Right" /\ Row \in 1..Len(tasks)) =>
          /\ pc' = "loop"
          /\ tasks'[Row].task_type = next(tasks[Row].task_type)
          /\ starts_with(tasks'[Row].text, type_to_string(tasks'[Row].task_type))
          /\ SubSeq(tasks'[Row].text, 4, Len(tasks'[Row].text))
                = SubSeq(tasks[Row].text, 4, Len(tasks[Row].text))]_vars

\* C17: whenever the loop waits for a key in navigation mode, the file holds the
\* texts of the list line by line in the same order, and the list is sorted by
\* state.
C17_NavigationPersisted ==
    (pc = "loop" /\ ~is_editing) =>
        /\ HoldsTexts(file, tasks, 1)
        /\ SortedByState(tasks)

\* navigation after an edit was confirmed: "[+]a" is "[ ]a" cycled once
C17_Witness ==
    /\ pc = "loop"
    /\ ~is_editing
    /\ key = "Down"
    /\ HasText(<<"[", "+", "]", "a">>)

\* the texts of a list without their first three bytes
Descriptions(list) ==
    [i \in 1..Len(list) |-> SubSeq(list[i].text, 4, Len(list[i].text))]

\* the number of bytes the first n characters of text take
RECURSIVE CharsLen(_, _)
CharsLen(text, n) ==
    IF n = 0 \/ text = <<>> THEN 0
    ELSE LET w == IF text[1] = LeadByte /\ Len(text) >= 2 THEN 2 ELSE 1
         IN  w + CharsLen(SubSeq(text, w + 1, Len(text)), n - 1)

\* the texts of a list without their first three characters
DescriptionsByChar(list) ==
    [i \in 1..Len(list) |->
        SubSeq(list[i].text, CharsLen(list[i].text, 3) + 1, Len(list[i].text))]

C19_CursorMovesOnlyInNavigation ==
    [][/\ cursor_position' # cursor_position =>
             /\ pc = "loop"
             /\ ~is_editing
             /\ key' \in {"Up", "Down"}
       /\ cursor_position'[1] = 1]_vars

\* buy milk was cycled to Rejected on row 1 and moved to row 3 by Left, the
\* cursor still on row 1
C19_Witness ==
    /\ pc = "loop"
    /\ key = "Left"
    /\ Row = 1
    /\ Len(tasks) = 3
    /\ tasks[1].text =
         <<"[", "+", "]", " ", "w", "r", "i", "t", "e", " ", "r", "e", "p", "o", "r", "t">>
    /\ tasks[3].text =
         <<"[", "-", "]", " ", "b", "u", "y", " ", "m", "i", "l", "k">>

====
